---- MODULE Spec2Model ----
(***************************************************************************)
(* Beer tracker: the exchange-rate client and price calculator of          *)
(* app/models.py, the entry service of app/beer_tracker.py and the page    *)
(* handlers that call it, as one state machine.                            *)
(*                                                                         *)
(* A Decimal is a record [c, e]: coefficient c and e fractional digits,    *)
(* the value c / 10^e, as Python's decimal keeps it (10.50 is [1050, 2]).  *)
(* Products are exact; only the store's columns round.                     *)
(***************************************************************************)
EXTENDS Integers, Sequences, FiniteSets, TLC

VARIABLES
    store,                \* rows of table beer_entries, in insertion order
    nextId,               \* the next primary key the store assigns
    now,                  \* logical clock read by datetime.utcnow
    netRequests,          \* network requests issued so far
    tasks,                \* coroutines suspended at an await
    beer_list_container,  \* the module-level global of beer_tracker.py
    page,                 \* per page: its widgets
    last,                 \* the operation that completed last, with its result
    lookedUp              \* history: per stored id, what the rate lookup gave

vars == <<store, nextId, now, netRequests, tasks, beer_list_container, page,
          last, lookedUp>>

----------------------------------------------------------------------------
(* Bounds *)

\* network requests (hence creates) one behaviour issues
MaxRequests == 2

----------------------------------------------------------------------------
(* Decimal arithmetic *)

Dec(c, e) == [c |-> c, e |-> e]

RECURSIVE Pow10(_)
Pow10(n) == IF n <= 0 THEN 1 ELSE 10 * Pow10(n - 1)

\* the same value with no trailing fractional zero
RECURSIVE Normal(_)
Normal(d) == IF d.e > 0 /\ d.c % 10 = 0 THEN Normal(Dec(d.c \div 10, d.e - 1)) ELSE d

\* Decimal.__eq__ compares values, not representations: 1.0 == 1.00
DecEq(a, b) == Normal(a) = Normal(b)

\* Decimal.__mul__: coefficients multiply, fractional digits add; nothing is rounded
DecMul(a, b) == Dec(a.c * b.c, a.e + b.e)

Abs(n) == IF n < 0 THEN -n ELSE n

\* c / 10^k rounded to the nearest integer, ties away from zero
RoundDiv(c, k) ==
    LET q == Abs(c) \div Pow10(k)
        r == Abs(c) % Pow10(k)
        m == IF 2 * r >= Pow10(k) THEN q + 1 ELSE q
    IN  IF c < 0 THEN -m ELSE m

\* a NUMERIC(_, places) column: the value read back has exactly `places` digits
Quantize(d, places) ==
    IF d.e <= places
    THEN Dec(d.c * Pow10(places - d.e), places)
    ELSE Dec(RoundDiv(d.c, d.e - places), places)

PRICE_PLACES == 2
RATE_PLACES == 6

----------------------------------------------------------------------------
(* Currencies and dates *)

EUR == "EUR"
USD == "USD"
CurrencyEnum == {EUR, USD}

Dates == {"2023-01-01", "2023-01-02"}

\* Optional[...]: the absent value
None == [t |-> "None"]

\* an exception leaving a function
Raised(exc) == [t |-> "raise", exc |-> exc]

IsRaised(v) == "t" \in DOMAIN v /\ v.t = "raise"

----------------------------------------------------------------------------
(* The rate provider's answer, as get_exchange_rate reads it *)

\* JSON values found under a currency code
JNull == [j |-> "null"]
JBool == [j |-> "bool"]
JNumber(c, e) == [j |-> "number", c |-> c, e |-> e]      \* the literal as written
JString(numeric, c, e) == [j |-> "string", numeric |-> numeric, c |-> c, e |-> e]

\* texts: a decimal numeral with its digits, or anything else
Numeral(c, e) == [numeric |-> TRUE, c |-> c, e |-> e]
NotNumeral == [numeric |-> FALSE, c |-> 0, e |-> 0]

RECURSIVE StripZeros(_, _)
StripZeros(c, e) ==
    IF e > 1 /\ c % 10 = 0 THEN StripZeros(c \div 10, e - 1) ELSE Numeral(c, e)

\* str(rate): response.json() has made a number an int (no fraction written)
\* or a float, whose repr drops trailing zeros but keeps one fractional digit
Str(v) ==
    CASE v.j = "number" -> IF v.e = 0 THEN Numeral(v.c, 0) ELSE StripZeros(v.c, v.e)
      [] v.j = "string" -> IF v.numeric THEN Numeral(v.c, v.e) ELSE NotNumeral
      [] OTHER          -> NotNumeral                     \* "True", "[...]"

\* Decimal(text): the digits as written, or decimal.InvalidOperation
\* (an ArithmeticError, not a ValueError)
ToDecimal(text) ==
    IF text.numeric THEN Dec(text.c, text.e) ELSE Raised("InvalidOperation")

RateValues ==
    { JNull, JBool,
      JNumber(110, 2),                 \* 1.10
      JNumber(1, 0),                   \* 1
      JNumber(1234567, 7),             \* 0.1234567
      JString(TRUE, 11, 1),            \* "1.1"
      JString(FALSE, 0, 0) }           \* "n/a"

Bodies ==
    { [shape |-> "not_json"], [shape |-> "array"],
      [shape |-> "object", rates |-> "absent"],
      [shape |-> "object", rates |-> "not_mapping"] }
    \cup { [shape |-> "object", rates |-> "mapping", code |-> k, value |-> v] :
             k \in CurrencyEnum, v \in RateValues }

\* what `await client.get(url)` and raise_for_status can end in
Responses ==
    { [status |-> "transport_error"], [status |-> "http_error"] }
    \cup { [status |-> "ok", body |-> b] : b \in Bodies }

\* the answers a page's create meets: no rate, a rate, a body that is no object
PageResponses ==
    { [status |-> "transport_error"],
      [status |-> "ok", body |-> [shape |-> "array"]] }
    \cup { [status |-> "ok",
            body |-> [shape |-> "object", rates |-> "mapping",
                      code |-> k, value |-> JNumber(110, 2)]] :
           k \in CurrencyEnum }

\* rates.get(to_currency.value) on a mapping holding one code
RatesGet(body, to_currency) == IF body.code = to_currency THEN body.value ELSE JNull

\* get_exchange_rate from the response on: lines 95-109
RateFromResponse(resp, to_currency) ==
    CASE resp.status # "ok"             -> None   \* RequestError, HTTPStatusError
      [] resp.body.shape = "not_json"   -> None   \* JSONDecodeError is a ValueError
      [] resp.body.shape = "array"      -> Raised("AttributeError")  \* data.get
      [] resp.body.rates = "absent"     -> None   \* {}.get(...)
      [] resp.body.rates = "not_mapping" -> Raised("AttributeError") \* rates.get
      [] OTHER ->
           LET rate == RatesGet(resp.body, to_currency)
           IN  IF rate # JNull THEN ToDecimal(Str(rate)) ELSE None

\* as GetExchangeRate, without the equal-currency return of lines 86-87
GetExchangeRateAlwaysAsks(from_currency, to_currency) ==
    [sends |-> TRUE, ret |-> None]

\* get_exchange_rate before any request: lines 86-94.  Equal currencies
\* return at once, others go to the network
GetExchangeRate(from_currency, to_currency) ==
    IF from_currency = to_currency
    THEN [sends |-> FALSE, ret |-> Dec(10, 1)]
    ELSE [sends |-> TRUE, ret |-> None]

\* the pair calculate_prices asks for: lines 126-130 and 139-143
RateRequest(original_currency) ==
    IF original_currency = EUR
    THEN [from |-> EUR, to |-> USD]
    ELSE [from |-> USD, to |-> EUR]

\* as CalculatePrices, with the product rounded to cents before it is returned
CalculatePricesRounded(original_price, original_currency, exchange_rate) ==
    IF IsRaised(exchange_rate) THEN exchange_rate
    ELSE IF original_currency = EUR
    THEN IF exchange_rate # None
         THEN [eur |-> original_price,
               usd |-> Quantize(DecMul(original_price, exchange_rate), PRICE_PLACES),
               rate |-> exchange_rate]
         ELSE [eur |-> original_price, usd |-> Dec(0, 0), rate |-> Dec(10, 1)]
    ELSE IF exchange_rate # None
         THEN [eur |-> Quantize(DecMul(original_price, exchange_rate), PRICE_PLACES),
               usd |-> original_price,
               rate |-> exchange_rate]
         ELSE [eur |-> Dec(0, 0), usd |-> original_price, rate |-> Dec(10, 1)]

\* as CalculatePrices, with the fallback pricing the other currency at par
CalculatePricesAtPar(original_price, original_currency, exchange_rate) ==
    IF IsRaised(exchange_rate) THEN exchange_rate
    ELSE IF exchange_rate = None
    THEN [eur |-> original_price, usd |-> original_price, rate |-> Dec(10, 1)]
    ELSE IF original_currency = EUR
    THEN [eur |-> original_price,
          usd |-> DecMul(original_price, exchange_rate),
          rate |-> exchange_rate]
    ELSE [eur |-> DecMul(original_price, exchange_rate),
          usd |-> original_price,
          rate |-> exchange_rate]

\* calculate_prices once get_exchange_rate has returned: lines 131-150
CalculatePrices(original_price, original_currency, exchange_rate) ==
    IF IsRaised(exchange_rate) THEN exchange_rate
    ELSE IF original_currency = EUR
    THEN IF exchange_rate # None
         THEN [eur |-> original_price,
               usd |-> DecMul(original_price, exchange_rate),
               rate |-> exchange_rate]
         ELSE [eur |-> original_price, usd |-> Dec(0, 0), rate |-> Dec(10, 1)]
    ELSE IF exchange_rate # None
         THEN [eur |-> DecMul(original_price, exchange_rate),
               usd |-> original_price,
               rate |-> exchange_rate]
         ELSE [eur |-> Dec(0, 0), usd |-> original_price, rate |-> Dec(10, 1)]

----------------------------------------------------------------------------
(* The store: table beer_entries behind get_session() *)

\* the columns of a row read back from the table: prices NUMERIC(10, 2),
\* the rate NUMERIC(15, 6), the id assigned by the store
Persisted(entry, id) ==
    [entry EXCEPT !.id = id,
                  !.original_price = Quantize(@, PRICE_PLACES),
                  !.eur_price = Quantize(@, PRICE_PLACES),
                  !.usd_price = Quantize(@, PRICE_PLACES),
                  !.exchange_rate = Quantize(@, RATE_PLACES)]

\* session.add + session.commit: the row is appended under the next id
Insert(st, entry, id) == Append(st, Persisted(entry, id))

\* session.get(BeerEntry, entry_id): the row with that primary key, or None
Get(st, entry_id) ==
    IF \E i \in 1..Len(st) : st[i].id = entry_id
    THEN st[CHOOSE i \in 1..Len(st) : st[i].id = entry_id]
    ELSE None

\* session.delete + session.commit: the row with that primary key is gone
Remove(st, entry_id) == SelectSeq(st, LAMBDA r : r.id # entry_id)

\* session.exec(select(BeerEntry)): every row, in the table's own order
SelectAll(st) == st

Ids(st) == { st[i].id : i \in 1..Len(st) }

----------------------------------------------------------------------------
(* BeerTrackerService *)

\* as BeerEntry, with the two computed prices passed to each other's field
BeerEntrySwapped(entry_data, prices, created_at) ==
    [id |-> 0,
     beer_name |-> entry_data.beer_name,
     original_price |-> entry_data.original_price,
     original_currency |-> entry_data.original_currency,
     purchase_date |-> entry_data.purchase_date,
     eur_price |-> prices.usd,
     usd_price |-> prices.eur,
     exchange_rate |-> prices.rate,
     created_at |-> created_at]

\* BeerEntry(...) as create_beer_entry builds it: lines 33-41
BeerEntry(entry_data, prices, created_at) ==
    [id |-> 0,                              \* not assigned before the insert
     beer_name |-> entry_data.beer_name,
     original_price |-> entry_data.original_price,
     original_currency |-> entry_data.original_currency,
     purchase_date |-> entry_data.purchase_date,
     eur_price |-> prices.eur,
     usd_price |-> prices.usd,
     exchange_rate |-> prices.rate,
     created_at |-> created_at]

\* as CreateBeerEntry, returning the entry without adding it to the session
CreateBeerEntryUnsaved(st, id, clock, entry_data, exchange_rate, fault) ==
    LET prices == CalculatePrices(entry_data.original_price,
                                  entry_data.original_currency, exchange_rate)
    IN  IF IsRaised(prices) \/ fault # "none"
        THEN [store |-> st, ret |-> None, prices |-> prices,
              notify |-> "Error creating beer entry"]
        ELSE [store |-> st,
              ret |-> Persisted(BeerEntry(entry_data, prices, clock), id),
              prices |-> prices, notify |-> ""]

\* as CreateBeerEntry, with the row saved under primary key 1 whatever key
\* the store would assign
CreateBeerEntryFixedKey(st, id, clock, entry_data, exchange_rate, fault) ==
    LET prices == CalculatePrices(entry_data.original_price,
                                  entry_data.original_currency, exchange_rate)
    IN  IF IsRaised(prices) \/ fault = "commit"
        THEN [store |-> st, ret |-> None, prices |-> prices,
              notify |-> "Error creating beer entry"]
        ELSE [store |-> Insert(st, BeerEntry(entry_data, prices, clock), 1),
              ret |-> IF fault = "refresh" THEN None
                      ELSE Persisted(BeerEntry(entry_data, prices, clock), 1),
              prices |-> prices,
              notify |-> IF fault = "refresh" THEN "Error creating beer entry" ELSE ""]

\* create_beer_entry after the await: lines 28-51.  exchange_rate is what
\* get_exchange_rate gave; fault says which store call raises, if any
CreateBeerEntry(st, id, clock, entry_data, exchange_rate, fault) ==
    LET prices == CalculatePrices(entry_data.original_price,
                                  entry_data.original_currency, exchange_rate)
    IN  IF IsRaised(prices)
        THEN [store |-> st, ret |-> None, prices |-> prices,
              notify |-> "Error creating beer entry"]
        ELSE LET beer_entry == BeerEntry(entry_data, prices, clock)
             IN  CASE fault = "commit" ->
                        [store |-> st, ret |-> None, prices |-> prices,
                         notify |-> "Error creating beer entry"]
                   [] fault = "refresh" ->
                        [store |-> Insert(st, beer_entry, id), ret |-> None,
                         prices |-> prices,
                         notify |-> "Error creating beer entry"]
                   [] OTHER ->
                        [store |-> Insert(st, beer_entry, id),
                         ret |-> Persisted(beer_entry, id),
                         prices |-> prices, notify |-> ""]

\* as GetAllBeerEntries, newest first
GetAllBeerEntriesNewestFirst(st) ==
    [i \in 1..Len(st) |-> SelectAll(st)[Len(st) + 1 - i]]

\* get_all_beer_entries: lines 54-58
GetAllBeerEntries(st) == SelectAll(st)

\* as DeleteBeerEntry, without the commit of line 68
DeleteBeerEntryUncommitted(st, entry_id, fault) ==
    IF fault = "raise"
    THEN [store |-> st, ret |-> FALSE, notify |-> "Error deleting entry"]
    ELSE [store |-> st, ret |-> Get(st, entry_id) # None, notify |-> ""]

\* delete_beer_entry: lines 61-73
DeleteBeerEntry(st, entry_id, fault) ==
    IF fault = "raise"
    THEN [store |-> st, ret |-> FALSE, notify |-> "Error deleting entry"]
    ELSE IF Get(st, entry_id) # None
         THEN [store |-> Remove(st, entry_id), ret |-> TRUE, notify |-> ""]
         ELSE [store |-> st, ret |-> FALSE, notify |-> ""]

----------------------------------------------------------------------------
(* Callers and their inputs *)

\* browser pages (one NiceGUI client each) and a caller of the service API
Pages == {1, 2}
Svc == 0

\* a string is the sequence of its characters
RECURSIVE LStrip(_)
LStrip(s) == IF s # <<>> /\ Head(s) = " " THEN LStrip(Tail(s)) ELSE s

RECURSIVE RStrip(_)
RStrip(s) ==
    IF s # <<>> /\ s[Len(s)] = " " THEN RStrip(SubSeq(s, 1, Len(s) - 1)) ELSE s

\* str.strip
Strip(s) == LStrip(RStrip(s))

\* what the form's widgets can hold when Add is clicked
FormNames == { <<>>, <<" ">>, <<" ", "A", " ">> }
FormPrices == { None, JNumber(0, 0), JNumber(1050, 2), JNumber(10555, 3) }
FormCurrencies == { "", EUR, USD }
FormDates == { "", "2023-01-01" }
AllForms ==
    [beer_name : FormNames, price : FormPrices,
     currency : FormCurrencies, date : FormDates]

\* the forms submitted: a valid one in each currency, and each way of
\* differing from it in one widget
ValidForm ==
    [beer_name |-> <<" ", "A", " ">>, price |-> JNumber(1050, 2),
     currency |-> EUR, date |-> "2023-01-01"]
Forms ==
    { f \in AllForms :
        Cardinality({ k \in DOMAIN f : f[k] # ValidForm[k] }) <= 1 }

\* BeerEntryCreate objects handed to the service directly
ServiceInputs ==
    { [beer_name |-> <<>>, original_price |-> Dec(0, 0),
       original_currency |-> EUR, purchase_date |-> "2023-01-01"],
      [beer_name |-> <<"S">>, original_price |-> Dec(1050, 2),
       original_currency |-> EUR, purchase_date |-> "2023-01-01"],
      [beer_name |-> <<"S">>, original_price |-> Dec(1055, 2),
       original_currency |-> USD, purchase_date |-> "2023-01-02"] }

\* as Validate, without the strip() of line 107
ValidateUnstripped(form) ==
    CASE form.beer_name = <<>> -> "Beer name is required"
      [] form.price = None \/ form.price.c <= 0 ->
            "Please enter a valid price greater than 0"
      [] form.currency = "" -> "Please select a currency"
      [] form.date = "" -> "Please select a purchase date"
      [] OTHER -> ""

\* the first failing check of add_beer_entry, "" when all pass: lines 107-121
Validate(form) ==
    CASE form.beer_name = <<>> \/ Strip(form.beer_name) = <<>> ->
            "Beer name is required"
      [] form.price = None \/ form.price.c <= 0 ->
            "Please enter a valid price greater than 0"
      [] form.currency = "" -> "Please select a currency"
      [] form.date = "" -> "Please select a purchase date"
      [] OTHER -> ""

\* BeerEntryCreate(...) from the widgets: lines 132-144.  The schema's
\* decimal_places=2 rejects a price written with more fractional digits
EntryData(form) ==
    LET original_price == ToDecimal(Str(form.price))
    IN  IF original_price.e > PRICE_PLACES
        THEN Raised("ValidationError")
        ELSE [beer_name |-> Strip(form.beer_name),
              original_price |-> original_price,
              original_currency |-> form.currency,
              purchase_date |-> form.date]

----------------------------------------------------------------------------
(* Initial state *)

NoPage == [loaded |-> FALSE, rows |-> <<>>, add_enabled |-> FALSE,
           loading |-> FALSE, error |-> ""]

Init ==
    /\ store = <<>>
    /\ nextId = 1
    /\ now = 1
    /\ netRequests = 0
    /\ tasks = {}
    /\ beer_list_container = 0          \* not yet in globals()
    /\ page = [p \in Pages |-> NoPage]
    /\ last = [op |-> "none"]
    /\ lookedUp = <<>>

----------------------------------------------------------------------------
(* Page handlers *)

\* refresh_beer_list: lines 199-232.  It fills the container the global
\* names, whichever page that container is on
RefreshBeerList(pg, container, st) ==
    IF container = 0 THEN pg
    ELSE [pg EXCEPT ![container].rows = GetAllBeerEntries(st)]

\* beer_tracker_page: the form, then create_beer_list (lines 182-196)
PageLoad(p) ==
    /\ ~page[p].loaded
    /\ \A q \in Pages : q < p => page[q].loaded     \* pages are numbered as opened
    /\ beer_list_container' = p
    /\ page' = RefreshBeerList(
                  [page EXCEPT ![p] = [NoPage EXCEPT !.loaded = TRUE,
                                                     !.add_enabled = TRUE]],
                  p, store)
    /\ last' = [op |-> "load", caller |-> p]
    /\ UNCHANGED <<store, nextId, now, netRequests, tasks, lookedUp>>

\* the Refresh button: line 189
RefreshClick(p) ==
    /\ page[p].loaded
    /\ page' = RefreshBeerList(page, beer_list_container, store)
    /\ last' = [op |-> "list", caller |-> p, ret |-> GetAllBeerEntries(store)]
    /\ UNCHANGED <<store, nextId, now, netRequests, tasks, beer_list_container, lookedUp>>

\* as Submitted, without add_button.set_enabled(False) of line 128
SubmittedStillEnabled(pg, p) ==
    [pg EXCEPT ![p].error = "", ![p].loading = TRUE]

\* hide_error, the loading indicator, the button: lines 123-128
Submitted(pg, p) ==
    [pg EXCEPT ![p].error = "", ![p].loading = TRUE, ![p].add_enabled = FALSE]

\* add_beer_entry up to its await: lines 104-147.  A disabled button
\* delivers no click
AddClick(p) ==
    /\ page[p].loaded
    /\ page[p].add_enabled
    /\ \E form \in Forms :
         \/ /\ Validate(form) # ""
            /\ page' = [page EXCEPT ![p].error = Validate(form)]
            /\ last' = [op |-> "add", caller |-> p, form |-> form,
                        outcome |-> "invalid"]
            /\ UNCHANGED <<netRequests, tasks>>
         \/ /\ Validate(form) = ""
            /\ IsRaised(EntryData(form))
            \* except Exception, then finally: lines 161-166
            /\ page' = [page EXCEPT ![p].error = "Error",
                                    ![p].loading = FALSE,
                                    ![p].add_enabled = TRUE]
            /\ last' = [op |-> "add", caller |-> p, form |-> form,
                        outcome |-> "raised"]
            /\ UNCHANGED <<netRequests, tasks>>
         \/ /\ Validate(form) = ""
            /\ ~IsRaised(EntryData(form))
            /\ netRequests < MaxRequests
            /\ netRequests' = netRequests + 1
            /\ tasks' = tasks \cup
                 {[rid |-> netRequests + 1, kind |-> "create", caller |-> p,
                   entry_data |-> EntryData(form),
                   request |-> RateRequest(EntryData(form).original_currency)]}
            /\ page' = Submitted(page, p)
            /\ last' = [op |-> "add", caller |-> p, form |-> form,
                        outcome |-> "awaiting"]
    /\ UNCHANGED <<store, nextId, now, beer_list_container, lookedUp>>

\* as AddDone, with lines 165-166 after the success branch instead of in a
\* finally clause
AddDoneWithoutFinally(pg, p, container, result, st) ==
    IF result # None
    THEN [RefreshBeerList(pg, container, st) EXCEPT ![p].loading = FALSE,
                                                    ![p].add_enabled = TRUE]
    ELSE [pg EXCEPT ![p].error = "Failed to add beer entry"]

\* add_beer_entry after its await: lines 149-166
AddDone(pg, p, container, result, st) ==
    LET shown == IF result # None
                 THEN RefreshBeerList(pg, container, st)
                 ELSE [pg EXCEPT ![p].error = "Failed to add beer entry"]
    IN  [shown EXCEPT ![p].loading = FALSE, ![p].add_enabled = TRUE]

\* the row's delete button: delete_beer_entry opens its dialog and awaits
\* it (lines 266-275)
DeleteClick(p) ==
    /\ page[p].loaded
    /\ \A t \in tasks : ~(t.kind = "dialog" /\ t.caller = p)   \* it is modal
    /\ \E i \in 1..Len(page[p].rows) :
         tasks' = tasks \cup
             {[rid |-> 0, kind |-> "dialog", caller |-> p,
               entry_id |-> page[p].rows[i].id]}
    /\ last' = [op |-> "delete_click", caller |-> p]
    /\ UNCHANGED <<store, nextId, now, netRequests, beer_list_container, page, lookedUp>>

\* the history kept for the rows that remain
Live(h, st) == [i \in Ids(st) |-> h[i]]

\* the dialog is answered: lines 277-283
DialogSubmit(t) ==
    /\ t.kind = "dialog"
    /\ tasks' = tasks \ {t}
    /\ \/ /\ last' = [op |-> "delete_cancelled", caller |-> t.caller]
          /\ UNCHANGED <<store, page, lookedUp>>
       \/ \E fault \in {"none", "raise"} :
            \E done \in {DeleteBeerEntry(store, t.entry_id, fault)} :
                /\ store' = done.store
                /\ lookedUp' = Live(lookedUp, done.store)
                /\ page' = IF done.ret
                           THEN RefreshBeerList(page, beer_list_container, done.store)
                           ELSE page
                /\ last' = [op |-> "delete", caller |-> t.caller,
                            entry_id |-> t.entry_id, fault |-> fault,
                            ret |-> done.ret, before |-> store]
    /\ UNCHANGED <<nextId, now, netRequests, beer_list_container>>

----------------------------------------------------------------------------
(* Direct calls of the service API *)

\* BeerTrackerService.create_beer_entry(entry_data), up to the await inside
\* get_exchange_rate
CreateCall ==
    /\ netRequests < MaxRequests
    /\ \E entry_data \in ServiceInputs :
         tasks' = tasks \cup
             {[rid |-> netRequests + 1, kind |-> "create", caller |-> Svc,
               entry_data |-> entry_data,
               request |-> RateRequest(entry_data.original_currency)]}
    /\ netRequests' = netRequests + 1
    /\ last' = [op |-> "create_call", caller |-> Svc]
    /\ UNCHANGED <<store, nextId, now, beer_list_container, page, lookedUp>>

\* ExchangeRateService.get_exchange_rate(from, to, date), up to its return
\* (line 87) or its await (line 94)
RateCall ==
    /\ \E from_currency \in CurrencyEnum, to_currency \in CurrencyEnum,
          rate_date \in Dates :
         IF ~GetExchangeRate(from_currency, to_currency).sends
         THEN /\ last' = [op |-> "rate", from |-> from_currency,
                          to |-> to_currency, date |-> rate_date,
                          ret |-> GetExchangeRate(from_currency, to_currency).ret,
                          requests |-> 0]
              /\ UNCHANGED <<netRequests, tasks>>
         ELSE /\ netRequests < MaxRequests
              /\ netRequests' = netRequests + 1
              /\ tasks' = tasks \cup
                   {[rid |-> netRequests + 1, kind |-> "rate", caller |-> Svc,
                     request |-> [from |-> from_currency, to |-> to_currency],
                     date |-> rate_date]}
              /\ last' = [op |-> "rate_call", caller |-> Svc]
    /\ UNCHANGED <<store, nextId, now, beer_list_container, page, lookedUp>>

\* BeerTrackerService.get_all_beer_entries()
ListCall ==
    /\ last' = [op |-> "list", caller |-> Svc, ret |-> GetAllBeerEntries(store)]
    /\ UNCHANGED <<store, nextId, now, netRequests, tasks, beer_list_container, page, lookedUp>>

\* BeerTrackerService.delete_beer_entry(entry_id), for any id
DeleteCall ==
    \E entry_id \in 1..(MaxRequests + 1), fault \in {"none", "raise"} :
       \E done \in {DeleteBeerEntry(store, entry_id, fault)} :
           /\ store' = done.store
           /\ lookedUp' = Live(lookedUp, done.store)
           /\ last' = [op |-> "delete", caller |-> Svc, entry_id |-> entry_id,
                       fault |-> fault, ret |-> done.ret, before |-> store]
           /\ UNCHANGED <<nextId, now, netRequests, tasks, beer_list_container, page>>

----------------------------------------------------------------------------
(* The rate provider answers *)

\* as RateResponse, with the request sent again after a transport error
RateResponseRetrying(t) ==
    /\ t.kind = "rate"
    /\ \E resp \in Responses :
         IF resp.status = "transport_error" /\ netRequests < MaxRequests
         THEN /\ netRequests' = netRequests + 1
              /\ tasks' = tasks
              /\ last' = [op |-> "rate_retry", caller |-> Svc]
         ELSE /\ tasks' = tasks \ {t}
              /\ netRequests' = netRequests
              /\ last' = [op |-> "rate", from |-> t.request.from,
                          to |-> t.request.to, date |-> t.date,
                          ret |-> RateFromResponse(resp, t.request.to),
                          requests |-> 1]
    /\ UNCHANGED <<store, nextId, now, beer_list_container, page, lookedUp>>

\* a direct get_exchange_rate resumes: lines 95-109
RateResponse(t) ==
    /\ t.kind = "rate"
    /\ tasks' = tasks \ {t}
    /\ \E resp \in Responses :
         last' = [op |-> "rate", from |-> t.request.from, to |-> t.request.to,
                  date |-> t.date, ret |-> RateFromResponse(resp, t.request.to),
                  requests |-> 1]
    /\ UNCHANGED <<store, nextId, now, netRequests, beer_list_container, page, lookedUp>>

\* a create resumes: get_exchange_rate, calculate_prices and
\* create_beer_entry run on, then the page's add_beer_entry if a page called
CreateResponse(t, responses) ==
    /\ t.kind = "create"
    /\ tasks' = tasks \ {t}
    /\ \E resp \in responses, fault \in {"none", "commit", "refresh"} :
       \E exchange_rate \in {RateFromResponse(resp, t.request.to)} :
       \E done \in {CreateBeerEntry(store, nextId, now, t.entry_data,
                                    exchange_rate, fault)} :
         LET built == ~IsRaised(done.prices)
         IN  /\ fault # "none" => built      \* the store is reached only then
             /\ store' = done.store
             /\ nextId' = IF Len(done.store) > Len(store) THEN nextId + 1 ELSE nextId
             /\ lookedUp' = IF Len(done.store) > Len(store)
                            THEN [i \in Ids(done.store) |->
                                    IF i = nextId THEN exchange_rate ELSE lookedUp[i]]
                            ELSE lookedUp
             /\ now' = IF built THEN now + 1 ELSE now
             /\ page' = IF t.caller = Svc THEN page
                        ELSE AddDone(page, t.caller, beer_list_container,
                                     done.ret, done.store)
             /\ last' = [op |-> "create", caller |-> t.caller,
                         entry_data |-> t.entry_data, request |-> t.request,
                         exchange_rate |-> exchange_rate, prices |-> done.prices,
                         fault |-> fault, ret |-> done.ret, before |-> store]
    /\ UNCHANGED <<netRequests, beer_list_container>>

----------------------------------------------------------------------------
(* Specifications *)

\* BeerTrackerService under direct calls, as the tests drive it
Next ==
    \/ CreateCall
    \/ ListCall
    \/ DeleteCall
    \/ \E t \in tasks : CreateResponse(t, Responses)

Spec == Init /\ [][Next]_vars

\* ExchangeRateService.get_exchange_rate under direct calls
RateNext ==
    \/ RateCall
    \/ \E t \in tasks : RateResponse(t)

RateSpec == Init /\ [][RateNext]_vars

\* the two operations that reach the network, under direct calls
NetworkNext ==
    \/ CreateCall
    \/ RateCall
    \/ \E t \in tasks : CreateResponse(t, Responses)
    \/ \E t \in tasks : RateResponse(t)

NetworkSpec == Init /\ [][NetworkNext]_vars

\* one session: a single page is open, and every call of the service comes
\* from one of its handlers
Session == {1}

PageNext ==
    \/ \E p \in Session : PageLoad(p)
    \/ \E p \in Session : RefreshClick(p)
    \/ \E p \in Session : AddClick(p)
    \/ \E p \in Session : DeleteClick(p)
    \/ \E t \in tasks : DialogSubmit(t)
    \/ \E t \in tasks : CreateResponse(t, PageResponses)

PageSpec == Init /\ [][PageNext]_vars

\* one session whose awaited request always ends: httpx answers or raises
\* its timeout, and the event loop then resumes the handler
FairPageSpec ==
    /\ Init
    /\ [][PageNext]_vars
    /\ WF_vars(\E t \in tasks : CreateResponse(t, PageResponses))

\* the form of one page beside direct calls of create_beer_entry
FormNext ==
    \/ \E p \in Session : PageLoad(p)
    \/ \E p \in Session : AddClick(p)
    \/ CreateCall
    \/ \E t \in tasks : CreateResponse(t, PageResponses)

FormSpec == Init /\ [][FormNext]_vars

\* the provider cannot be reached: every lookup ends in the except clause
Unreachable == { [status |-> "transport_error"] }

\* two sessions: the page is open in two browsers, each with its own
\* widgets, both served by the one module
TwoPageNext ==
    \/ \E p \in Pages : PageLoad(p)
    \/ \E p \in Pages : RefreshClick(p)
    \/ \E p \in Pages : AddClick(p)
    \/ \E p \in Pages : DeleteClick(p)
    \/ \E t \in tasks : DialogSubmit(t)
    \/ \E t \in tasks : CreateResponse(t, Unreachable)

TwoPageSpec == Init /\ [][TwoPageNext]_vars

----------------------------------------------------------------------------
(* Properties of the rate client and the price calculator *)

IsDec(v) == "c" \in DOMAIN v

Zero == Dec(0, 0)
One == Dec(10, 1)

\* C1: when the lookup gives a rate r, calculate_prices(p, EUR, d) asked for
\* EUR->USD and returns (p, p*r, r), calculate_prices(p, USD, d) asked for
\* USD->EUR and returns (p*r, p, r); the product keeps every digit.
CalculatePricesConverts ==
    (last.op = "create" /\ IsDec(last.exchange_rate)) =>
        LET p == last.entry_data.original_price
            r == last.exchange_rate
            product == [c |-> p.c * r.c, e |-> p.e + r.e]
        IN  IF last.entry_data.original_currency = EUR
            THEN /\ last.request = [from |-> EUR, to |-> USD]
                 /\ last.prices = [eur |-> p, usd |-> product, rate |-> r]
            ELSE /\ last.request = [from |-> USD, to |-> EUR]
                 /\ last.prices = [eur |-> product, usd |-> p, rate |-> r]

\* 10.50 EUR at 1.1: 10.50 / 11.550 / 1.1
CalculatePricesConvertsWitness ==
    /\ last.op = "create"
    /\ last.entry_data.original_currency = EUR
    /\ last.entry_data.original_price = Dec(1050, 2)
    /\ last.exchange_rate = Dec(11, 1)
    /\ last.prices = [eur |-> Dec(1050, 2), usd |-> Dec(11550, 3), rate |-> Dec(11, 1)]

\* C2: when the lookup gives no rate, calculate_prices returns the fallback:
\* the original price in its own currency, 0 in the other, rate 1.0.
CalculatePricesFallback ==
    (last.op = "create" /\ last.exchange_rate = None) =>
        LET p == last.entry_data.original_price
        IN  /\ DecEq(last.prices.rate, One)
            /\ IF last.entry_data.original_currency = EUR
               THEN last.prices.eur = p /\ DecEq(last.prices.usd, Zero)
               ELSE last.prices.usd = p /\ DecEq(last.prices.eur, Zero)

\* 10.55 USD with no rate: 0 / 10.55 / 1.0
CalculatePricesFallbackWitness ==
    /\ last.op = "create"
    /\ last.exchange_rate = None
    /\ last.entry_data.original_currency = USD
    /\ last.prices = [eur |-> Dec(0, 0), usd |-> Dec(1055, 2), rate |-> Dec(10, 1)]

\* C3: get_exchange_rate never raises, whatever the request ends in, and so
\* calculate_prices never raises either.
RateLookupNeverRaises ==
    /\ last.op = "rate" => ~IsRaised(last.ret)
    /\ last.op = "create" => ~IsRaised(last.exchange_rate) /\ ~IsRaised(last.prices)

\* C4: get_exchange_rate(c, c, date) returns exactly 1.0 and sends no request.
SameCurrencyIsOne ==
    (last.op = "rate" /\ last.from = last.to) =>
        /\ last.ret = Dec(10, 1)
        /\ last.requests = 0

SameCurrencyIsOneWitness ==
    /\ last.op = "rate"
    /\ last.from = USD /\ last.to = USD
    /\ last.date = "2023-01-02"
    /\ last.ret = Dec(10, 1)

----------------------------------------------------------------------------
(* Properties of the entry service *)

Rows(st) == { st[i] : i \in 1..Len(st) }

\* d holds `exact` to the nearest unit of its last digit, of `places` digits
Rounds(d, exact, places) ==
    /\ d.e = places
    /\ IF exact.e <= places
       THEN d.c = exact.c * Pow10(places - exact.e)
       ELSE 2 * Abs(d.c * Pow10(exact.e - places) - exact.c)
               <= Pow10(exact.e - places)

\* the price of a row in its own currency, and in the other one
OwnPrice(row) == IF row.original_currency = EUR THEN row.eur_price ELSE row.usd_price
OtherPrice(row) == IF row.original_currency = EUR THEN row.usd_price ELSE row.eur_price

\* C5 as stated: of every stored entry exactly one price, the one in the
\* original currency, equals original_price, and the other equals
\* original_price * exchange_rate, or 0 with exchange_rate 1.0.
EntryPricesExact ==
    \A row \in Rows(store) :
        /\ DecEq(OwnPrice(row), row.original_price)
        /\ ~DecEq(OtherPrice(row), row.original_price)
        /\ \/ DecEq(OtherPrice(row), DecMul(row.original_price, row.exchange_rate))
           \/ DecEq(OtherPrice(row), Zero) /\ DecEq(row.exchange_rate, One)

\* the prices of a row are those computed from the rate r looked up for it
AsComputed(row, r) ==
    /\ DecEq(OwnPrice(row), row.original_price)
    /\ IF r = None
       THEN DecEq(OtherPrice(row), Zero) /\ DecEq(row.exchange_rate, One)
       ELSE /\ Rounds(OtherPrice(row), DecMul(row.original_price, r), PRICE_PLACES)
            /\ Rounds(row.exchange_rate, r, RATE_PLACES)

\* C5 as amended: of every stored entry the price in the original currency
\* equals original_price; the other is original_price * r to the nearest cent
\* and exchange_rate is r to six digits, r being the rate looked up; or the
\* other is 0 and exchange_rate 1.0 when the lookup gave no rate.
EntryPricesRounded ==
    \A row \in Rows(store) : AsComputed(row, lookedUp[row.id])

\* 10.55 USD at 1.1 is 11.605 EUR, stored as 11.61 or 11.60
EntryPricesRoundedWitness ==
    \E row \in Rows(store) :
        /\ row.original_currency = USD
        /\ lookedUp[row.id] = Dec(11, 1)
        /\ row.eur_price \in {Dec(1161, 2), Dec(1160, 2)}
        /\ row.exchange_rate = Dec(1100000, 6)

\* C6 as stated: delete of an absent id returns False and changes no entry;
\* delete of a present id returns True and removes that entry alone.
DeleteAsStated ==
    last.op = "delete" =>
        IF last.entry_id \in Ids(last.before)
        THEN /\ last.ret = TRUE
             /\ Rows(store) = { r \in Rows(last.before) : r.id # last.entry_id }
             /\ Len(store) = Len(last.before) - 1
        ELSE last.ret = FALSE /\ store = last.before

\* C6 as amended: delete of an absent id returns False and changes no entry;
\* delete of a present id returns True and removes that entry alone, unless a
\* store call raises: then it returns False and changes no entry.
DeleteContract ==
    last.op = "delete" =>
        IF last.entry_id \in Ids(last.before) /\ last.fault = "none"
        THEN /\ last.ret = TRUE
             /\ Rows(store) = { r \in Rows(last.before) : r.id # last.entry_id }
             /\ Len(store) = Len(last.before) - 1
        ELSE last.ret = FALSE /\ store = last.before

\* one of two entries deleted
DeleteContractWitness ==
    /\ last.op = "delete"
    /\ last.ret = TRUE
    /\ Len(last.before) = 2
    /\ Len(store) = 1

\* the fields of the returned entry that repeat the input
RepeatsInput(entry, entry_data) ==
    /\ entry.beer_name = entry_data.beer_name
    /\ DecEq(entry.original_price, entry_data.original_price)
    /\ entry.original_currency = entry_data.original_currency
    /\ entry.purchase_date = entry_data.purchase_date

\* C7 as stated: a create that succeeds adds the entry it returns and no
\* other; the entry repeats the input, and its prices and rate equal the
\* triple of calculate_prices.
CreateAsStated ==
    (last.op = "create" /\ last.ret # None) =>
        /\ store = Append(last.before, last.ret)
        /\ GetAllBeerEntries(store) = Append(last.before, last.ret)
        /\ RepeatsInput(last.ret, last.entry_data)
        /\ DecEq(last.ret.eur_price, last.prices.eur)
        /\ DecEq(last.ret.usd_price, last.prices.usd)
        /\ DecEq(last.ret.exchange_rate, last.prices.rate)

\* C7 as amended: a create that succeeds adds the entry it returns and no
\* other; the entry repeats the input, and its prices and rate are the triple
\* of calculate_prices as the columns hold it: prices to the nearest cent,
\* the rate to six digits.
CreateContract ==
    (last.op = "create" /\ last.ret # None) =>
        /\ store = Append(last.before, last.ret)
        /\ GetAllBeerEntries(store) = Append(last.before, last.ret)
        /\ RepeatsInput(last.ret, last.entry_data)
        /\ Rounds(last.ret.eur_price, last.prices.eur, PRICE_PLACES)
        /\ Rounds(last.ret.usd_price, last.prices.usd, PRICE_PLACES)
        /\ Rounds(last.ret.exchange_rate, last.prices.rate, RATE_PLACES)

\* the first entry of a store, listed alone
CreateContractWitness ==
    /\ last.op = "create"
    /\ last.ret # None
    /\ last.before = <<>>
    /\ GetAllBeerEntries(store) = <<last.ret>>
    /\ last.ret.beer_name = <<"S">>

\* C8: a create that fails returns None and leaves the stored entries as
\* they were before the call.
FailedCreateStoresNothing ==
    (last.op = "create" /\ last.ret = None) => store = last.before

\* C9: get_all_beer_entries returns every stored entry once, in the order of
\* insertion, with the prices computed at creation; <<>> on an empty store.
ListReturnsAll ==
    last.op = "list" =>
        /\ Len(last.ret) = Len(store)
        /\ { last.ret[i] : i \in 1..Len(last.ret) } = Rows(store)
        /\ \A i, j \in 1..Len(last.ret) : i < j => last.ret[i].id < last.ret[j].id
        /\ \A i \in 1..Len(last.ret) : AsComputed(last.ret[i], lookedUp[last.ret[i].id])
        /\ store = <<>> => last.ret = <<>>

\* two entries listed
ListReturnsAllWitness ==
    /\ last.op = "list"
    /\ Len(last.ret) = 2
    /\ last.ret[1].original_currency = EUR
    /\ last.ret[2].original_currency = USD

----------------------------------------------------------------------------
(* Properties of a session *)

\* the creates of page p suspended at the rate request
CreatesInFlight(p) == { t \in tasks : t.kind = "create" /\ t.caller = p }

\* C10 as stated: while a create of a session is suspended, no other action
\* of that session starts or takes effect.
OneActionAtATime ==
    \A p \in Pages :
        (last.op \in {"list", "delete_click", "delete", "delete_cancelled"}
            /\ last.caller = p) => CreatesInFlight(p) = {}

\* C10 as amended: a session has at most one create in flight, its Add button
\* disabled meanwhile; its refresh and delete actions are handled all the same.
OneCreateAtATime ==
    \A p \in Pages :
        /\ Cardinality(CreatesInFlight(p)) <= 1
        /\ CreatesInFlight(p) # {} => ~page[p].add_enabled

\* an entry deleted while the page's create awaits its rate
OneCreateAtATimeWitness ==
    \E p \in Pages :
        /\ CreatesInFlight(p) # {}
        /\ last.op = "delete" /\ last.caller = p /\ last.ret = TRUE

----------------------------------------------------------------------------
(* Properties of stored entries over time *)

IdsDistinct(st) == \A i, j \in 1..Len(st) : i # j => st[i].id # st[j].id

\* every row of st whose id is still in st2 is in st2 with all its fields
Kept(st, st2) == \A r \in Rows(st) : r.id \in Ids(st2) => r \in Rows(st2)

\* C11: the ids of the stored entries are pairwise distinct, and no create,
\* list or delete changes the id, created_at or any other field of an entry
\* already stored: a row stays as inserted until it is deleted.
EntriesImmutable ==
    /\ [](IdsDistinct(store))
    /\ [][/\ Kept(store, store')
          /\ IdsDistinct(store) => IdsDistinct(store')
          /\ last'.op = "list" => store' = store]_vars

\* the second entry outlives a create after it and the delete of the first
EntriesImmutableWitness ==
    /\ last.op = "delete" /\ last.ret = TRUE /\ last.entry_id = 1
    /\ Len(store) = 1
    /\ store[1].id = 2 /\ store[1].created_at = 2
    /\ store[1] \in Rows(last.before)

\* the calls suspended at their network request
NetCalls(ts) == { t \in ts : t.kind \in {"create", "rate"} }

\* C12: nothing is retried.  A get_exchange_rate between two currencies
\* issues one request when it starts and none when the answer arrives,
\* whatever the answer; a create_beer_entry issues that one request, ends
\* when it resumes and inserts at most one row, also when the request or a
\* store call fails.
NoRetry ==
    /\ [](\A t \in NetCalls(tasks) :
            /\ t.rid \in 1..netRequests
            /\ \A u \in NetCalls(tasks) : u.rid = t.rid => u = t)
    /\ []((last.op = "rate" /\ last.from # last.to) => last.requests = 1)
    /\ [][LET started == NetCalls(tasks') \ NetCalls(tasks)
              ended == NetCalls(tasks) \ NetCalls(tasks')
          IN  /\ Cardinality(started) <= 1
              /\ netRequests' = netRequests + Cardinality(started)
              /\ ended # {} => started = {}
              /\ (last'.op = "create" \/ (last'.op = "rate" /\ last'.from # last'.to))
                     => Cardinality(ended) = 1
              /\ Len(store') <= Len(store)
                     + Cardinality({ t \in ended : t.kind = "create" })]_vars

\* a create whose request met no rate and whose commit failed: one request,
\* no row, no call left
NoRetryWitness ==
    /\ last.op = "create"
    /\ last.exchange_rate = None /\ last.fault = "commit"
    /\ netRequests = 1
    /\ tasks = {}
    /\ store = <<>>

----------------------------------------------------------------------------
(* Properties of the form *)

Blank(name) == \A i \in 1..Len(name) : name[i] = " "

\* what the form is to turn away: no name or spaces only, no price or a
\* price not above 0, no currency, no date
Rejectable(form) ==
    \/ Blank(form.beer_name)
    \/ form.price = None
    \/ form.price.c <= 0
    \/ form.currency = ""
    \/ form.date = ""

Acceptable(entry_data) ==
    /\ ~Blank(entry_data.beer_name)
    /\ entry_data.original_price.c > 0
    /\ entry_data.original_currency \in CurrencyEnum
    /\ entry_data.purchase_date \in Dates

\* C13: add_beer_entry validates before it calls create: no create called
\* from a page carries a blank name, a price not above 0, no currency or no
\* date; a form with any of these gets an error shown and changes neither the
\* store nor the calls in flight.  create_beer_entry itself validates
\* nothing: a direct call with any input persists it, unless the lookup or
\* the store fails.
FormValidates ==
    /\ [](\A t \in tasks :
            (t.kind = "create" /\ t.caller \in Pages) => Acceptable(t.entry_data))
    /\ []((last.op = "add" /\ Rejectable(last.form)) =>
            /\ last.outcome = "invalid"
            /\ page[last.caller].error # "")
    /\ [][(last'.op = "add" /\ Rejectable(last'.form)) =>
            /\ store' = store
            /\ tasks' = tasks
            /\ netRequests' = netRequests]_vars
    /\ []((/\ last.op = "create" /\ last.caller = Svc
           /\ last.fault = "none" /\ ~IsRaised(last.prices)) =>
            /\ last.ret # None
            /\ last.ret \in Rows(store)
            /\ RepeatsInput(last.ret, last.entry_data))

\* a name of spaces turned away by the form, beside a row with no name and
\* price 0 that a direct call stored
FormValidatesWitness ==
    /\ last.op = "add" /\ last.outcome = "invalid"
    /\ last.form.beer_name = <<" ">>
    /\ page[last.caller].error = "Beer name is required"
    /\ \E r \in Rows(store) : r.beer_name = <<>> /\ DecEq(r.original_price, Zero)

----------------------------------------------------------------------------
(* Properties of the list shown *)

\* the create or delete that ended last was made through page p and succeeded
DoneThrough(p) ==
    /\ last.op \in {"create", "delete"}
    /\ last.caller = p
    /\ IF last.op = "create" THEN last.ret # None ELSE last.ret = TRUE

\* C14: when a create or delete made through a page has succeeded, the list
\* that page shows is the list of stored entries, also with two pages open.
ListShownIsStore ==
    \A p \in Pages : DoneThrough(p) => page[p].rows = GetAllBeerEntries(store)

----------------------------------------------------------------------------
(* Properties of the Add button *)

\* the handler of page p has just ended: BeerEntryCreate raised, or the
\* create returned an entry or None
HandlerEnded(p) ==
    \/ last.op = "add" /\ last.caller = p /\ last.outcome = "raised"
    \/ last.op = "create" /\ last.caller = p

\* C15: from a valid submission on, the Add button is disabled and the
\* loading indicator shown while the create is in flight; however the
\* handler ends, the button is enabled and the indicator hidden again, so a
\* disabled button always comes back.
ButtonComesBack ==
    /\ [](\A p \in Session :
            CreatesInFlight(p) # {} => (~page[p].add_enabled /\ page[p].loading))
    /\ [](\A p \in Session :
            HandlerEnded(p) => (page[p].add_enabled /\ ~page[p].loading))
    /\ \A p \in Session :
          (page[p].loaded /\ ~page[p].add_enabled)
              ~> (page[p].add_enabled /\ ~page[p].loading)

\* a create that returned None: the error shown, the button back
ButtonComesBackWitness ==
    /\ last.op = "create" /\ last.caller = 1 /\ last.ret = None
    /\ page[1].error = "Failed to add beer entry"
    /\ page[1].add_enabled /\ ~page[1].loading

====
